---- MODULE Spec2Model ----
(***************************************************************************)
(* Model of the retail pipeline of                                         *)
(* src/01_data_analysis_with_sql_and_python/analysis.py:                    *)
(* main() writes data.csv, connects, ensures the schema and the table,     *)
(* loads the CSV once (copy_data_from_csv_to_table), runs the statements   *)
(* of sql_queries.sql (execute_sql_file_and_fetch_results) and renders the *)
(* charts.  Every operating-system process runs main() exactly once        *)
(* (line 356), so a pipeline run is a process; the store (schema, table,   *)
(* committed rows) and data.csv outlive the runs.                          *)
(***************************************************************************)
EXTENDS Integers, Sequences, FiniteSets, TLC

\* ------------------------------------------------------------------ bounds
MaxRuns == 2
MaxRows == 1
MaxScriptLen == 2

Runs == 1..MaxRuns

SeqsUpTo(S, n) == UNION {[1..k -> S] : k \in 0..n}

\* ------------------------------------------------- raw and canonical cells

\* InvoiceDate as text: the layout of the text and the numbers in it.
GoodStamp ==
  [layout |-> "m/d/Y H:M", month |-> 12, day |-> 1, year |-> 2010,
   hour |-> 8, minute |-> 26]

\* A text in the layout with no thirteenth month to name.
Month13Stamp == [GoodStamp EXCEPT !.month = 13]

\* CustomerID as it comes: absent, or a number with or without a fraction.
MissingId == [kind |-> "missing", ip |-> "", fp |-> ""]
DoubleId  == [kind |-> "double", ip |-> "12345", fp |-> "0"]
IntId     == [kind |-> "int", ip |-> "12345", fp |-> ""]

\* A string value (characters as tokens), or the null of a string column.
Str(t) == [isNull |-> FALSE, text |-> t]
NullStr == [isNull |-> TRUE, text |-> <<>>]

\* '%m/%d/%Y %H:%M' (pandas) and "M/d/yyyy H:mm" (Spark) accept the text.
Parses(ts) ==
  /\ ts.layout = "m/d/Y H:M"
  /\ ts.month \in 1..12 /\ ts.day \in 1..31
  /\ ts.hour \in 0..23 /\ ts.minute \in 0..59

\* .dt.strftime('%Y-%m-%d %H:%M:%S') of the parsed value.
Strftime(ts) ==
  [layout |-> "Y-m-d H:M:S", year |-> ts.year, month |-> ts.month,
   day |-> ts.day, hour |-> ts.hour, minute |-> ts.minute, second |-> 0]

\* df['CustomerID'].fillna(0) on the float column.
FillNa(c) == IF c.kind = "missing" THEN [kind |-> "double", ip |-> "0", fp |-> "0"] ELSE c

\* .astype(int): the integer part.
AsTypeInt(c) == [kind |-> "int", ip |-> c.ip, fp |-> ""]

\* .astype(str) of an integer: its digits.
AsTypeStr(c) == Str(<<c.ip>>)

\* read_retail_dataset, lines 55-57, on one cell.
NormalizeCustomerID(c) == AsTypeStr(AsTypeInt(FillNa(c)))

\* read_retail_dataset, lines 52-58, on one record.
NormalizeRecord(r) ==
  [InvoiceDate |-> Strftime(r.InvoiceDate),
   CustomerID |-> NormalizeCustomerID(r.CustomerID)]

\* read_retail_dataset on the whole frame: row by row, order kept.
NormalizeRetail(raw) == [i \in 1..Len(raw) |-> NormalizeRecord(raw[i])]

\* Records fetch_ucirepo can deliver (CustomerID is a float column there).
RawRetailRecords ==
  [InvoiceDate : {GoodStamp, Month13Stamp}, CustomerID : {MissingId, DoubleId}]

\* Data rows of the dataset: the canonical records.
Rows == {NormalizeRecord(r) : r \in {x \in RawRetailRecords : Parses(x.InvoiceDate)}}

\* The row an "i" statement of a script inserts.
InsertedRow ==
  [InvoiceDate |-> Strftime(GoodStamp), CustomerID |-> Str(<<"inserted">>)]

\* Characters of a script: a statement that yields a result set starts with
\* "s", one that yields none starts with "i"; " " is whitespace, ";" separates.
Alphabet == {"s", "i", " ", ";"}

\* The script of the batch-parsing example, "SELECT 1; ; SELECT 2;".
ExampleScript == <<"s", ";", " ", ";", " ", "s", ";">>

\* A script of three result-producing statements, as the charts need.
ThreeQueryScript == <<"s", ";", "s", ";", "s">>

\* A statement without a result set, then a different one with a result set.
MixedScript == <<"i", ";", " ", "s", "s">>

Datasets == SeqsUpTo(Rows, MaxRows)

RawRetailDatasets == SeqsUpTo(RawRetailRecords, MaxRows)

\* Every text up to the bound, and the three named scripts.
Scripts ==
  SeqsUpTo(Alphabet, MaxScriptLen) \cup {ExampleScript, ThreeQueryScript, MixedScript}

None == "None"

NoError == [type |-> "none", query |-> <<>>]

\* ======================================================================
\* The sales pipeline (pipeline.py): read data.csv, aggregate, write to the
\* sink table 'sales'.
\* ======================================================================

\* Longest data.csv of the sales pipeline that is enumerated line by line.
MaxRecords == 2

\* The 10 of limit(10).
TopN == 10

\* A second calendar day.
NextDayStamp == [GoodStamp EXCEPT !.day = 2]

\* What to_timestamp gives for a text it cannot parse (ANSI mode off).
NullStamp ==
  [layout |-> "null", month |-> 0, day |-> 0, year |-> 0, hour |-> 0, minute |-> 0]

NullDate == [year |-> 0, month |-> 0, day |-> 0]

SalesRecord(inv, code, qty, price, stamp, cust) ==
  [InvoiceNo |-> inv, StockCode |-> code, Quantity |-> qty, UnitPrice |-> price,
   InvoiceDate |-> stamp, CustomerID |-> cust]

\* Lines of data.csv; UnitPrice in cents.
LineA2 == SalesRecord("i1", "A", 2, 300, GoodStamp, DoubleId)
LineA1 == SalesRecord("i1", "A", 1, 300, GoodStamp, MissingId)
LineB5 == SalesRecord("i2", "B", 5, 100, NextDayStamp, IntId)
LineC1 == SalesRecord("i3", "C", 1, 500, Month13Stamp, MissingId)

SalesLines == {LineA2, LineA1, LineB5, LineC1}

\* The records (A,2,3.00), (A,1,3.00), (B,5,1.00).
ExampleSales == <<LineA2, LineA1, LineB5>>

\* More stock codes than limit(10) keeps, all sums different.
ManyCodes == <<"P01", "P02", "P03", "P04", "P05", "P06", "P07", "P08", "P09", "P10", "P11">>

CutoffSales ==
  [i \in 1..Len(ManyCodes) |-> SalesRecord("i1", ManyCodes[i], i, 100, GoodStamp, IntId)]

SalesFiles == SeqsUpTo(SalesLines, MaxRecords) \cup {ExampleSales, CutoffSales}

Range(f) == {f[i] : i \in DOMAIN f}

\* spark.read.csv(inferSchema=True): the type inferred for CustomerID.
InferType(cells) ==
  IF \E c \in cells : c.kind = "double" THEN "double"
  ELSE IF \E c \in cells : c.kind = "int" THEN "int"
  ELSE "string"

\* df.fillna({'CustomerID': 0}): numeric columns only.
SparkFillNa(c, type) ==
  IF c.kind # "missing" THEN c
  ELSE IF type = "double" THEN [kind |-> "double", ip |-> "0", fp |-> "0"]
  ELSE IF type = "int" THEN [kind |-> "int", ip |-> "0", fp |-> ""]
  ELSE c

\* F.col('CustomerID').cast('string') of a column of the given type.
CastString(c, type) ==
  IF c.kind = "missing" THEN NullStr
  ELSE IF type = "double"
       THEN Str(<<c.ip, ".", IF c.kind = "double" THEN c.fp ELSE "0">>)
       ELSE Str(<<c.ip>>)

\* F.to_timestamp("InvoiceDate", "M/d/yyyy H:mm") on one text; under ANSI
\* mode the failure is an error raised when the column is evaluated.
ErrorStamp == [NullStamp EXCEPT !.layout = "error"]

ToTimestamp(ts, ansi) ==
  IF Parses(ts) THEN [ts EXCEPT !.layout = "timestamp"]
  ELSE IF ansi THEN ErrorStamp ELSE NullStamp

\* read_csv_file, lines 36-46, on the lines of the file.
ReadCsv(lines, ansi) ==
  LET type == InferType({lines[i].CustomerID : i \in DOMAIN lines})
  IN [i \in 1..Len(lines) |->
        [lines[i] EXCEPT
           !.InvoiceDate = ToTimestamp(lines[i].InvoiceDate, ansi),
           !.CustomerID = CastString(SparkFillNa(lines[i].CustomerID, type), type)]]

\* F.to_date of a timestamp.
ToDate(ts) ==
  IF ts.layout = "timestamp" THEN [year |-> ts.year, month |-> ts.month, day |-> ts.day]
  ELSE NullDate

\* A decimal value in cents, or SQL NULL.
Amount(n) == [isNull |-> FALSE, cents |-> n]
NullAmount == [isNull |-> TRUE, cents |-> 0]

\* F.col('Quantity') * F.col('UnitPrice')
LineAmount(r) == r.Quantity * r.UnitPrice

RECURSIVE SumAmounts(_)
SumAmounts(rows) ==
  IF rows = <<>> THEN 0 ELSE LineAmount(Head(rows)) + SumAmounts(Tail(rows))

\* F.sum over the rows of one group: NULL when the group has no row.
SparkSum(rows) == IF rows = <<>> THEN NullAmount ELSE Amount(SumAmounts(rows))

\* calculate_total_sales: groupBy() is one group of all rows.
TotalSales(df) == SparkSum(df)

CountInvoices_Lines(rows) == Len(rows)

\* F.countDistinct(F.col('InvoiceNo'))
CountInvoices(rows) == Cardinality({rows[i].InvoiceNo : i \in DOMAIN rows})

\* calculate_transaction_per_day: one row per to_date value.
TransactionsPerDay(df) ==
  {[InvoiceDate |-> d,
    total_transactions |->
      LET OnDay(r) == ToDate(r.InvoiceDate) = d IN CountInvoices(SelectSeq(df, OnDay))]
   : d \in {ToDate(df[i].InvoiceDate) : i \in DOMAIN df}}

\* calculate_top_10_products, lines 108-112: one row per StockCode.
SalesByProduct(df) ==
  {[StockCode |-> c,
    total_sales |->
      LET OfCode(r) == r.StockCode = c IN SparkSum(SelectSeq(df, OfCode))]
   : c \in {df[i].StockCode : i \in DOMAIN df}}

\* orderBy(desc): every order of the groups that is descending by total_sales
\* (Spark leaves the order of equal totals open).
RECURSIVE DescendingOrders(_)
DescendingOrders(groups) ==
  IF groups = {} THEN {<<>>}
  ELSE UNION {{<<g>> \o rest : rest \in DescendingOrders(groups \ {g})}
              : g \in {x \in groups :
                         \A y \in groups : y.total_sales.cents <= x.total_sales.cents}}

Limit_Unbounded(rows) == rows

\* .limit(10)
Limit(rows) == IF Len(rows) <= TopN THEN rows ELSE SubSeq(rows, 1, TopN)

\* The rows of a table or frame without their order.
RowBag(rows) == [r \in Range(rows) |-> Cardinality({i \in DOMAIN rows : rows[i] = r})]

EmptyTable == RowBag(<<>>)

\* A frame written to the sink, or none yet.
Frame(rows) == [some |-> TRUE, rows |-> rows]
NoFrame == [some |-> FALSE, rows |-> <<>>]

BagSum(a, b) ==
  [r \in DOMAIN a \cup DOMAIN b |->
     (IF r \in DOMAIN a THEN a[r] ELSE 0) + (IF r \in DOMAIN b THEN b[r] ELSE 0)]

JdbcWrite_Append(old, rows) == BagSum(old, RowBag(rows))

\* df.write.jdbc(mode='overwrite'): the table is dropped and created again,
\* then the rows are inserted.
JdbcWrite(old, rows) == RowBag(rows)

\* ------------------------------------------------------------------- state
VARIABLES
  schemaExists,   \* store: schema retail exists (committed)
  tableExists,    \* store: table retail.online_retail exists (committed)
  table,          \* store: committed rows of the table, in insertion order
  csv_file,       \* data.csv: the data rows under the header line
  raw,            \* per run: the dataset as fetched
  df,             \* per run: the dataset as normalized
  sales,          \* sink table 'sales': its rows, without order
  sales_pc,       \* sales pipeline: position in main
  sales_runs,     \* sales pipeline: runs started so far
  data_csv,       \* sales pipeline: the lines of the data.csv it reads
  ansi,           \* sales pipeline: spark.sql.ansi.enabled of the session
  sales_df,       \* sales pipeline: df of main
  total_sales,    \* sales pipeline: value printed by calculate_total_sales
  transactions_per_day,  \* sales pipeline: rows of calculate_transaction_per_day
  top_10_products,       \* sales pipeline: rows of calculate_top_10_products
  sales_before,   \* history: the sink table before the write of the current run
  written,        \* history: the frame of the last completed write, if the table still holds it
  prev_written,   \* history: written, as it was before the write of the current run
  sales_trace,    \* history: events of the current sales run
  loads,          \* history: one record per Bulk Loader invocation
  pc,             \* per run: position in main()
  conn,           \* per run: "unset", None or "open"
  tx,             \* per run: transaction status of the connection
  pend,           \* per run: rows inserted in the open transaction
  test_result,    \* per run: the probe's fetchone() result
  sql_script,     \* per run: text of sql_queries.sql as read
  queries,        \* per run: sql_script.split(';')
  qidx,           \* per run: loop position in queries
  executed,       \* per run: statements cur.execute() completed, in order
  query_results,  \* per run: the list the runner returns
  error,          \* per run: the exception that left main(), if any
  trace           \* per run: events of the run, in order

storeVars == <<schemaExists, tableExists, table>>
batchVars == <<sql_script, queries, qidx, executed, query_results>>
inputVars == <<raw, df>>
salesLocals == <<data_csv, ansi, sales_df, total_sales, transactions_per_day, top_10_products>>
salesHistory == <<sales_before, written, prev_written>>
salesVars == <<sales, sales_pc, sales_runs, salesLocals, salesHistory, sales_trace>>
vars == <<salesVars, schemaExists, tableExists, table, csv_file, raw, df, loads, pc, conn, tx, pend,
          test_result, sql_script, queries, qidx, executed, query_results,
          error, trace>>

\* --------------------------------------------------------- pure functions

IsSpace(c) == c = " "

\* str.split(';'): the fragments between separators, empty ones included.
RECURSIVE Split(_)
Split(s) ==
  IF \A i \in 1..Len(s) : s[i] # ";"
  THEN <<s>>
  ELSE LET i == CHOOSE k \in 1..Len(s) :
                   s[k] = ";" /\ \A j \in 1..(k-1) : s[j] # ";"
       IN <<SubSeq(s, 1, i-1)>> \o Split(SubSeq(s, i+1, Len(s)))

RECURSIVE LStrip(_)
LStrip(s) == IF s # <<>> /\ IsSpace(Head(s)) THEN LStrip(Tail(s)) ELSE s

RECURSIVE RStrip(_)
RStrip(s) ==
  IF s # <<>> /\ IsSpace(s[Len(s)]) THEN RStrip(SubSeq(s, 1, Len(s)-1)) ELSE s

\* str.strip()
Strip(s) == RStrip(LStrip(s))

\* ------------------------------------------------ connection and store

\* What cur.execute() of execute_query meets: no connection handle, a
\* statement error (the transaction is already aborted, the object the
\* statement needs is missing, or the server refuses it), or success.
ExecStatus(p, objectOk, envOk) ==
  IF conn[p] # "open" THEN "noconn"
  ELSE IF tx[p] = "failed" \/ ~objectOk \/ ~envOk THEN "error"
  ELSE "ok"

\* execute_query's try block: execute then commit; the except clause and the
\* else branch only print.
ExecuteQueryEvents(st, what) ==
  CASE st = "ok"     -> << <<"execute", what>>, <<"commit", what>> >>
    [] st = "error"  -> << <<"execute_error", what>>, <<"print", "An error occurred">> >>
    [] st = "noconn" -> << <<"print", "Connection to PostgreSQL failed.">> >>

\* Bug: the except clause rolls the failed transaction back.
ExecuteQueryTx_RolledBack(st, old) == IF st = "noconn" THEN old ELSE "idle"

\* Transaction status execute_query leaves: committed, aborted, or untouched.
ExecuteQueryTx(st, old) ==
  CASE st = "ok"     -> "idle"
    [] st = "error"  -> "failed"
    [] st = "noconn" -> old

\* Bug: a failed probe returns None like a probe that found no row.
FetchRaises_Never(st) == "none"

\* `return cur.fetchone()` after the try block: cur is unbound without a
\* connection, and holds no result after a failed execute.
FetchRaises(st) ==
  CASE st = "ok"     -> "none"
    [] st = "error"  -> "psycopg2.ProgrammingError"
    [] st = "noconn" -> "UnboundLocalError"

\* Bug: the probe's result is lost and reads as "no row".
FetchOne_Lost(rows) == None

\* cur.fetchone() on SELECT 1 FROM <schema>.<table>
FetchOne(rows) == IF rows = <<>> THEN None ELSE <<1>>

\* Bug: the emptiness guard is dropped and every call copies.
ShouldCopy_Always(r) == TRUE

\* `if test_result is None:`
ShouldCopy(r) == r = None

\* Bug: the exception of copy_expert is swallowed and the commit still runs.
AfterCopy_Swallowed(ok) == "copy_commit"

\* copy_expert raising leaves the with block before conn.commit().
AfterCopy(ok) == IF ok THEN "copy_commit" ELSE "crashed"

\* Bug: rows are refused when the table already holds rows.
CommitRows_Guarded(committed, pending, status) ==
  IF status = "failed" \/ committed # <<>> THEN committed ELSE committed \o pending

\* conn.commit(): the server ends an aborted transaction by rolling it back.
CommitRows(committed, pending, status) ==
  IF status = "failed" THEN committed ELSE committed \o pending

\* Rows a statement of run p sees: committed rows and its own uncommitted ones.
Visible(p) == table \o pend[p]

NotCalled ==
  [outcome |-> "notcalled", source |-> <<>>, before |-> <<>>, after |-> <<>>,
   copied |-> FALSE, committed |-> FALSE, rows |-> <<>>]

\* ------------------------------------------------ batch statement runner

\* Bug: the fragment is used untrimmed.
TrimQuery_Untrimmed(q) == q

\* `query = query.strip()`
TrimQuery(q) == Strip(q)

\* `if query:`
ShouldExecute(q) == q # <<>>

\* Bug: the fragments are visited last to first.
NextQuery_Reversed(qs, i) == qs[Len(qs) + 1 - i]

\* `for query in queries:` visits the fragments first to last.
NextQuery(qs, i) == qs[i]

\* cur.description: column metadata of a statement with a result set.
Description(q) == IF q # <<>> /\ Head(q) = "s" THEN <<q>> ELSE None

\* Bug: an entry is appended for every statement, result set or not.
CaptureResult_Every(results, q, rows) == Append(results, <<Description(q), rows>>)

\* `if cur.description:` ... query_results.append((columns, result))
CaptureResult(results, q, rows) ==
  IF Description(q) # None
  THEN Append(results, <<Description(q), rows>>)
  ELSE results

\* Bug: a failing statement is skipped and the loop goes on.
AfterStatement_Continue(ok) == "batch_loop"

\* An exception of cur.execute(query) leaves the loop and the function.
AfterStatement(ok) == IF ok THEN "batch_loop" ELSE "crashed"

\* Uncommitted effect of a statement: an "i" statement inserts a row.
StatementEffect(q) == IF q # <<>> /\ Head(q) = "i" THEN <<InsertedRow>> ELSE <<>>

\* generate_visualizations indexes query_results[0], [1] and [2].
ChartsNeeded == 3

\* ------------------------------------------------------------------ Init
Init ==
  /\ schemaExists = FALSE
  /\ tableExists = FALSE
  /\ table = <<>>
  /\ csv_file = <<>>
  /\ raw = [p \in Runs |-> <<>>]
  /\ df = [p \in Runs |-> <<>>]
  /\ loads = [p \in Runs |-> NotCalled]
  /\ pc = [p \in Runs |-> "start"]
  /\ conn = [p \in Runs |-> "unset"]
  /\ tx = [p \in Runs |-> "idle"]
  /\ pend = [p \in Runs |-> <<>>]
  /\ test_result = [p \in Runs |-> None]
  /\ sql_script = [p \in Runs |-> <<>>]
  /\ queries = [p \in Runs |-> <<>>]
  /\ qidx = [p \in Runs |-> 1]
  /\ executed = [p \in Runs |-> <<>>]
  /\ query_results = [p \in Runs |-> <<>>]
  /\ error = [p \in Runs |-> NoError]
  /\ trace = [p \in Runs |-> <<>>]
  /\ sales = EmptyTable
  /\ sales_pc = "start"
  /\ sales_runs = 0
  /\ data_csv = <<>>
  /\ ansi = FALSE
  /\ sales_df = <<>>
  /\ total_sales = NullAmount
  /\ transactions_per_day = {}
  /\ top_10_products = <<>>
  /\ sales_before = EmptyTable
  /\ written = NoFrame
  /\ prev_written = NoFrame
  /\ sales_trace = <<>>

Log(p, evs) == trace' = [trace EXCEPT ![p] = @ \o evs]

\* ---------------------------------------------------------------- actions

\* main, line 15: read_retail_dataset. pd.to_datetime(format=...) raises
\* ValueError on a text the format does not accept.
FetchAndNormalize(p) ==
  /\ pc[p] = "start"
  /\ \E r \in RawRetailDatasets :
       /\ raw' = [raw EXCEPT ![p] = r]
       /\ IF \E i \in 1..Len(r) : ~Parses(r[i].InvoiceDate)
          THEN /\ pc' = [pc EXCEPT ![p] = "crashed"]
               /\ error' = [error EXCEPT ![p] = [type |-> "ValueError", query |-> <<>>]]
               /\ Log(p, << <<"raise", "ValueError">> >>)
               /\ UNCHANGED df
          ELSE /\ df' = [df EXCEPT ![p] = NormalizeRetail(r)]
               /\ pc' = [pc EXCEPT ![p] = "create_csv"]
               /\ Log(p, << <<"normalize", "ok">> >>)
               /\ UNCHANGED error
  /\ UNCHANGED <<storeVars, csv_file, loads, conn, tx, pend, test_result, batchVars>>
  /\ UNCHANGED salesVars

\* One run of the SQL pipeline after the other: a run starts when the runs
\* before it have exited.
read_retail_dataset(p) ==
  /\ \A q \in Runs : q < p => pc[q] = "exited"
  /\ FetchAndNormalize(p)

\* main, line 16: create_csv_file(df, 'data.csv') overwrites the file.
create_csv_file(p) ==
  /\ pc[p] = "create_csv"
  /\ csv_file' = df[p]
  /\ pc' = [pc EXCEPT ![p] = "load_config"]
  /\ Log(p, << <<"write", "data.csv">> >>)
  /\ UNCHANGED <<storeVars, loads, conn, tx, pend, test_result, batchVars, error>>
  /\ UNCHANGED inputVars
  /\ UNCHANGED salesVars

\* load_config: raises Exception when the section is missing.
load_config(p) ==
  /\ pc[p] = "load_config"
  /\ \E ok \in BOOLEAN :
       IF ok
       THEN /\ pc' = [pc EXCEPT ![p] = "connect"]
            /\ Log(p, << <<"config", "ok">> >>)
            /\ UNCHANGED error
       ELSE /\ pc' = [pc EXCEPT ![p] = "crashed"]
            /\ error' = [error EXCEPT ![p] = [type |-> "Exception", query |-> <<>>]]
            /\ Log(p, << <<"raise", "Exception">> >>)
  /\ UNCHANGED <<storeVars, csv_file, loads, conn, tx, pend, test_result, batchVars>>
  /\ UNCHANGED inputVars
  /\ UNCHANGED salesVars

\* connect: returns the connection, or prints the error and returns None.
connect(p) ==
  /\ pc[p] = "connect"
  /\ \E ok \in BOOLEAN :
       /\ conn' = [conn EXCEPT ![p] = IF ok THEN "open" ELSE None]
       /\ Log(p, IF ok THEN << <<"connect", "open">> >>
                       ELSE << <<"connect", None>>, <<"print", "Error">> >>)
  /\ pc' = [pc EXCEPT ![p] = "create_schema"]
  /\ UNCHANGED <<storeVars, csv_file, loads, tx, pend, test_result, batchVars, error>>
  /\ UNCHANGED inputVars
  /\ UNCHANGED salesVars

\* create_schema_if_not_exists: execute_query, then the success message.
create_schema_if_not_exists(p) ==
  /\ pc[p] = "create_schema"
  /\ \E envOk \in BOOLEAN :
       LET st == ExecStatus(p, TRUE, envOk) IN
         /\ schemaExists' = (schemaExists \/ st = "ok")
         /\ tx' = [tx EXCEPT ![p] = ExecuteQueryTx(st, @)]
         /\ Log(p, ExecuteQueryEvents(st, "schema")
                     \o << <<"print", "Schema created successfully or already exists!">> >>)
  /\ pc' = [pc EXCEPT ![p] = "create_table"]
  /\ UNCHANGED <<tableExists, table, csv_file, loads, conn, pend, test_result,
                 batchVars, error>>
  /\ UNCHANGED inputVars
  /\ UNCHANGED salesVars

\* Bug: main runs the batch before the loader.
AfterCreateTable_Batch == "run_batch"

\* main, lines 21-22: copy_data_from_csv_to_table follows create_table_if_not_exists.
AfterCreateTable == "copy_probe"

\* create_table_if_not_exists: execute_query, then the success message.
create_table_if_not_exists(p) ==
  /\ pc[p] = "create_table"
  /\ \E envOk \in BOOLEAN :
       LET st == ExecStatus(p, schemaExists, envOk) IN
         /\ tableExists' = (tableExists \/ st = "ok")
         /\ tx' = [tx EXCEPT ![p] = ExecuteQueryTx(st, @)]
         /\ Log(p, ExecuteQueryEvents(st, "table")
                     \o << <<"print", "Table created successfully or already exists!">> >>)
  /\ pc' = [pc EXCEPT ![p] = AfterCreateTable]
  /\ UNCHANGED <<schemaExists, table, csv_file, loads, conn, pend, test_result,
                 batchVars, error>>
  /\ UNCHANGED inputVars
  /\ UNCHANGED salesVars

\* copy_data_from_csv_to_table, lines 212-215 and 226-227: the probe
\* execute_query(conn, test_query, fetch_result=True) and the branch on it.
copy_probe(p) ==
  /\ pc[p] = "copy_probe"
  /\ \E envOk \in BOOLEAN :
       LET st == ExecStatus(p, tableExists, envOk)
           r  == FetchOne(Visible(p))
           call == [NotCalled EXCEPT !.source = csv_file, !.before = table,
                                    !.after = table]
       IN
         /\ tx' = [tx EXCEPT ![p] = ExecuteQueryTx(st, @)]
         /\ IF FetchRaises(st) # "none"
            THEN /\ pc' = [pc EXCEPT ![p] = "crashed"]
                 /\ error' = [error EXCEPT ![p] = [type |-> FetchRaises(st), query |-> <<>>]]
                 /\ loads' = [loads EXCEPT ![p] = [call EXCEPT !.outcome = "LoadError"]]
                 /\ Log(p, ExecuteQueryEvents(st, "probe") \o << <<"raise", FetchRaises(st)>> >>)
                 /\ UNCHANGED test_result
            ELSE /\ test_result' = [test_result EXCEPT ![p] = r]
                 /\ UNCHANGED error
                 /\ IF ShouldCopy(r)
                    THEN /\ pc' = [pc EXCEPT ![p] = "copy_expert"]
                         /\ loads' = [loads EXCEPT ![p] = [call EXCEPT !.outcome = "running"]]
                         /\ Log(p, ExecuteQueryEvents(st, "probe"))
                    ELSE /\ pc' = [pc EXCEPT ![p] = "run_batch"]
                         /\ loads' = [loads EXCEPT ![p] = [call EXCEPT !.outcome = "AlreadyLoaded"]]
                         /\ Log(p, ExecuteQueryEvents(st, "probe")
                                     \o << <<"print", "Table already has data">> >>)
  /\ UNCHANGED <<storeVars, csv_file, conn, pend, batchVars>>
  /\ UNCHANGED inputVars
  /\ UNCHANGED salesVars

\* copy_data_from_csv_to_table, lines 220-222: open(file_path) and
\* cur.copy_expert(...): the rows of data.csv enter the open transaction, or
\* COPY fails as a whole and the exception leaves the function.
copy_expert(p) ==
  /\ pc[p] = "copy_expert"
  /\ \E envOk \in BOOLEAN :
       LET ok == ExecStatus(p, tableExists, envOk) = "ok" IN
         /\ pc' = [pc EXCEPT ![p] = AfterCopy(ok)]
         /\ IF ok
            THEN /\ pend' = [pend EXCEPT ![p] = @ \o csv_file]
                 /\ tx' = [tx EXCEPT ![p] = "active"]
                 /\ loads' = [loads EXCEPT ![p].copied = TRUE, ![p].rows = csv_file]
                 /\ Log(p, << <<"copy", "ok">> >>)
                 /\ UNCHANGED error
            ELSE /\ tx' = [tx EXCEPT ![p] = "failed"]
                 /\ loads' = [loads EXCEPT ![p].outcome = "LoadError"]
                 /\ Log(p, << <<"copy", "raise">> >>)
                 /\ error' = [error EXCEPT ![p] =
                                IF AfterCopy(ok) = "crashed"
                                THEN [type |-> "psycopg2.Error", query |-> <<>>]
                                ELSE @]
                 /\ UNCHANGED pend
  /\ UNCHANGED <<storeVars, csv_file, conn, test_result, batchVars>>
  /\ UNCHANGED inputVars
  /\ UNCHANGED salesVars

\* copy_data_from_csv_to_table, lines 223-225: conn.commit(), cur.close() and
\* the success message.
copy_commit(p) ==
  /\ pc[p] = "copy_commit"
  /\ table' = CommitRows(table, pend[p], tx[p])
  /\ pend' = [pend EXCEPT ![p] = <<>>]
  /\ tx' = [tx EXCEPT ![p] = "idle"]
  /\ loads' = [loads EXCEPT ![p].outcome = IF @ = "running" THEN "Loaded" ELSE @,
                            ![p].committed = TRUE,
                            ![p].after = CommitRows(table, pend[p], tx[p])]
  /\ Log(p, << <<"commit", "copy">>, <<"print", "Data imported successfully">> >>)
  /\ pc' = [pc EXCEPT ![p] = "run_batch"]
  /\ UNCHANGED <<schemaExists, tableExists, csv_file, conn, test_result, batchVars, error>>
  /\ UNCHANGED inputVars
  /\ UNCHANGED salesVars

\* execute_sql_file_and_fetch_results, lines 247-253: read the script, open
\* the cursor and split the text.
read_sql_file(p) ==
  /\ pc[p] = "run_batch"
  /\ \E s \in Scripts :
       /\ sql_script' = [sql_script EXCEPT ![p] = s]
       /\ queries' = [queries EXCEPT ![p] = Split(s)]
  /\ qidx' = [qidx EXCEPT ![p] = 1]
  /\ executed' = [executed EXCEPT ![p] = <<>>]
  /\ query_results' = [query_results EXCEPT ![p] = <<>>]
  /\ pc' = [pc EXCEPT ![p] = "batch_loop"]
  /\ Log(p, << <<"read", "sql_queries.sql">> >>)
  /\ UNCHANGED <<storeVars, csv_file, loads, conn, tx, pend, test_result, error>>
  /\ UNCHANGED inputVars
  /\ UNCHANGED salesVars

\* Bug: the runner rolls the transaction back when a statement fails.
AfterFailedStatement_RolledBack(pending) == <<>>

\* Lines 254-261: the exception of cur.execute leaves the function; nothing
\* is done to the open transaction.
AfterFailedStatement(pending) == pending

\* One iteration of the loop of lines 254-261.
execute_statement(p) ==
  /\ pc[p] = "batch_loop"
  /\ qidx[p] <= Len(queries[p])
  /\ LET query == TrimQuery(NextQuery(queries[p], qidx[p])) IN
       IF ~ShouldExecute(query)
       THEN /\ qidx' = [qidx EXCEPT ![p] = @ + 1]
            /\ UNCHANGED <<pc, tx, pend, executed, query_results, error, trace>>
       ELSE \E envOk \in BOOLEAN :
              LET ok == ExecStatus(p, Strip(query) # <<>>, envOk) = "ok" IN
                /\ pc' = [pc EXCEPT ![p] = AfterStatement(ok)]
                /\ qidx' = [qidx EXCEPT ![p] = @ + 1]
                /\ IF ok
                   THEN /\ tx' = [tx EXCEPT ![p] = "active"]
                        /\ pend' = [pend EXCEPT ![p] = @ \o StatementEffect(query)]
                        /\ executed' = [executed EXCEPT ![p] = Append(@, query)]
                        /\ query_results' =
                             [query_results EXCEPT ![p] =
                                CaptureResult(@, query, Visible(p) \o StatementEffect(query))]
                        /\ Log(p, << <<"statement", query>> >>)
                        /\ UNCHANGED error
                   ELSE /\ tx' = [tx EXCEPT ![p] = "failed"]
                        /\ Log(p, << <<"statement_error", query>> >>)
                        /\ error' = [error EXCEPT ![p] =
                                       IF AfterStatement(ok) = "crashed"
                                       THEN [type |-> "psycopg2.Error", query |-> query]
                                       ELSE @]
                        /\ pend' = [pend EXCEPT ![p] = AfterFailedStatement(@)]
                        /\ UNCHANGED <<executed, query_results>>
  /\ UNCHANGED <<storeVars, csv_file, loads, conn, test_result, sql_script, queries>>
  /\ UNCHANGED inputVars
  /\ UNCHANGED salesVars

\* Line 262: the loop is over, the cursor closes, query_results is returned.
return_query_results(p) ==
  /\ pc[p] = "batch_loop"
  /\ qidx[p] > Len(queries[p])
  /\ pc' = [pc EXCEPT ![p] = "visualize"]
  /\ Log(p, << <<"return", "query_results">> >>)
  /\ UNCHANGED <<storeVars, csv_file, loads, conn, tx, pend, test_result, batchVars, error>>
  /\ UNCHANGED inputVars
  /\ UNCHANGED salesVars

\* generate_visualizations: needs query_results[0..2].
generate_visualizations(p) ==
  /\ pc[p] = "visualize"
  /\ IF Len(query_results[p]) < ChartsNeeded
     THEN /\ pc' = [pc EXCEPT ![p] = "crashed"]
          /\ error' = [error EXCEPT ![p] = [type |-> "IndexError", query |-> <<>>]]
          /\ Log(p, << <<"raise", "IndexError">> >>)
     ELSE /\ pc' = [pc EXCEPT ![p] = "done"]
          /\ Log(p, << <<"charts", "saved">> >>)
          /\ UNCHANGED error
  /\ UNCHANGED <<storeVars, csv_file, loads, conn, tx, pend, test_result, batchVars>>
  /\ UNCHANGED inputVars
  /\ UNCHANGED salesVars

\* The process ends: its variables are gone, the connection closes and the
\* server rolls back what it had not committed.
exit(p) ==
  /\ pc[p] \in {"done", "crashed"}
  /\ pc' = [pc EXCEPT ![p] = "exited"]
  /\ conn' = [conn EXCEPT ![p] = "unset"]
  /\ tx' = [tx EXCEPT ![p] = "idle"]
  /\ pend' = [pend EXCEPT ![p] = <<>>]
  /\ test_result' = [test_result EXCEPT ![p] = None]
  /\ sql_script' = [sql_script EXCEPT ![p] = <<>>]
  /\ queries' = [queries EXCEPT ![p] = <<>>]
  /\ qidx' = [qidx EXCEPT ![p] = 1]
  /\ executed' = [executed EXCEPT ![p] = <<>>]
  /\ query_results' = [query_results EXCEPT ![p] = <<>>]
  /\ error' = [error EXCEPT ![p] = NoError]
  /\ trace' = [trace EXCEPT ![p] = <<>>]
  /\ raw' = [raw EXCEPT ![p] = <<>>]
  /\ df' = [df EXCEPT ![p] = <<>>]
  /\ UNCHANGED <<storeVars, csv_file, loads>>
  /\ UNCHANGED salesVars

Next ==
  \E p \in Runs :
    \/ read_retail_dataset(p)
    \/ create_csv_file(p)
    \/ load_config(p)
    \/ connect(p)
    \/ create_schema_if_not_exists(p)
    \/ create_table_if_not_exists(p)
    \/ copy_probe(p)
    \/ copy_expert(p)
    \/ copy_commit(p)
    \/ read_sql_file(p)
    \/ execute_statement(p)
    \/ return_query_results(p)
    \/ generate_visualizations(p)
    \/ exit(p)

Spec == Init /\ [][Next]_vars



\* ------------------------------------------------------- claim helpers

IsPrefix(a, b) == Len(a) <= Len(b) /\ SubSeq(b, 1, Len(a)) = a

Invoked(p) == loads[p].outcome # "notcalled"

Completed(p) == loads[p].outcome \in {"Loaded", "AlreadyLoaded"}

\* p and q are consecutive invocations of the Bulk Loader.
Consecutive(p, q) ==
  /\ p < q /\ Invoked(p) /\ Invoked(q)
  /\ \A r \in Runs : (p < r /\ r < q) => ~Invoked(r)

HasEvent(p, e) == \E i \in 1..Len(trace[p]) : trace[p][i] = e

\* ------------------------------------------------------------------ C1

\* C1 as stated (for every dataset): of two consecutive loader calls that both
\* complete, the first against an empty table, the first transfers and
\* commits, the second transfers nothing and reports the table as already
\* loaded, and the table is the same after both.
C1_IdempotentLoadEveryDataset ==
  \A p, q \in Runs :
    (Consecutive(p, q) /\ loads[p].before = <<>> /\ Completed(p) /\ Completed(q))
      => /\ loads[p].outcome = "Loaded" /\ loads[p].copied /\ loads[p].committed
         /\ loads[q].outcome = "AlreadyLoaded" /\ ~loads[q].copied
         /\ loads[q].after = loads[p].after

\* C1: for every dataset with at least one data row, two consecutive loader
\* calls that both complete, the first against an empty table, perform
\* exactly one bulk transfer: the first call transfers the dataset and
\* commits, the second transfers nothing and reports the table as already
\* loaded, and the table after the second call equals the table after the
\* first.
C1_IdempotentLoad ==
  \A p, q \in Runs :
    (/\ Consecutive(p, q) /\ loads[p].before = <<>> /\ loads[p].source # <<>>
     /\ Completed(p) /\ Completed(q))
      => /\ loads[p].outcome = "Loaded" /\ loads[p].copied /\ loads[p].committed
         /\ loads[p].after = loads[p].source
         /\ loads[q].outcome = "AlreadyLoaded" /\ ~loads[q].copied
         /\ ~loads[q].committed
         /\ loads[q].after = loads[p].after
         /\ table = loads[p].after

C1_Witness ==
  \E p, q \in Runs :
    /\ Consecutive(p, q) /\ loads[p].before = <<>> /\ loads[p].source # <<>>
    /\ loads[p].outcome = "Loaded" /\ loads[q].outcome = "AlreadyLoaded"
    /\ pc[q] = "run_batch"

\* ------------------------------------------------------------------ C2

\* C2: a loader call that finds at least one row in the table performs no
\* bulk transfer and leaves the table as it was, whatever data.csv holds.
C2_NoRetransfer ==
  \A p \in Runs :
    (Invoked(p) /\ loads[p].before # <<>>)
      => /\ ~loads[p].copied /\ ~loads[p].committed
         /\ pc[p] \notin {"copy_expert", "copy_commit"}
         /\ loads[p].after = loads[p].before
         /\ table = loads[p].before

C2_Witness ==
  \E p \in Runs :
    /\ loads[p].outcome = "AlreadyLoaded" /\ loads[p].before # <<>>
    /\ loads[p].source # loads[p].before
    /\ Len(loads[p].source) # Len(loads[p].before)
    /\ pc[p] = "run_batch"


\* ------------------------------------------- the batch, read off the text

\* Indexes at which a fragment of s starts: 1 and the index after each ';'.
FragmentStarts(s) == {1} \cup {i + 1 : i \in {k \in 1..Len(s) : s[k] = ";"}}

\* Last index of the fragment that starts at a (a - 1 when it is empty).
FragmentEnd(s, a) ==
  IF \E k \in a..Len(s) : s[k] = ";"
  THEN (CHOOSE k \in a..Len(s) : s[k] = ";" /\ \A j \in a..(k-1) : s[j] # ";") - 1
  ELSE Len(s)

\* Indexes of the non-blank characters of the fragment that starts at a.
Inked(s, a) == {k \in a..FragmentEnd(s, a) : s[k] # " "}

Min(S) == CHOOSE x \in S : \A y \in S : x <= y
Max(S) == CHOOSE x \in S : \A y \in S : y <= x

\* Starts of the fragments that are not blank.
StatementStarts(s) == {a \in FragmentStarts(s) : Inked(s, a) # {}}

\* The statements of script s: its non-blank fragments, each from its first
\* to its last non-blank character, in the order of the text.
StatementBatch(s) ==
  [n \in 1..Cardinality(StatementStarts(s)) |->
     LET a == CHOOSE x \in StatementStarts(s) :
                Cardinality({y \in StatementStarts(s) : y < x}) = n - 1
     IN SubSeq(s, Min(Inked(s, a)), Max(Inked(s, a)))]

\* Events of cur.execute() calls of the runner, in order.
IsBatchEvent(e) == e[1] \in {"statement", "statement_error"}
BatchEvents(p) == SelectSeq(trace[p], IsBatchEvent)

HasStatementError(p) ==
  \E i \in 1..Len(trace[p]) : trace[p][i][1] = "statement_error"

\* ------------------------------------------------------------------ C3

IsStatement(q) == q # <<>>

\* The non-blank fragments among the first n of a split script, trimmed.
Visited(s, n) ==
  SelectSeq([i \in 1..n |-> Strip(Split(s)[i])], IsStatement)

\* C4: while no statement has failed, the statements executed so far are
\* exactly the non-empty fragments the loop has passed, each once and in the
\* order of the script, and the runner returns only when it has passed them
\* all.
C4_ParsedOrder ==
  \A p \in Runs :
    pc[p] \in {"batch_loop", "visualize"} =>
      /\ qidx[p] \in 1..(Len(Split(sql_script[p])) + 1)
      /\ executed[p] = Visited(sql_script[p], qidx[p] - 1)
      /\ BatchEvents(p) = [i \in 1..Len(executed[p]) |-> <<"statement", executed[p][i]>>]
      /\ (pc[p] = "visualize" => qidx[p] = Len(Split(sql_script[p])) + 1)

\* Two different statements were executed and the runner has returned.
C4_Witness ==
  \E p \in Runs :
    /\ pc[p] = "visualize"
    /\ Len(executed[p]) = 2
    /\ executed[p][1] # executed[p][2]

\* ------------------------------------------------------------------ C5

\* C5: a run of the runner that returns has executed exactly the statement
\* batch of its script: the fragments between the ';' separators, trimmed,
\* the blank ones dropped, in the order of the text; the example script
\* "SELECT 1; ; SELECT 2;" gives exactly 2 statements.
C5_BatchParsing ==
  \A p \in Runs :
    pc[p] = "visualize" =>
      /\ executed[p] = StatementBatch(sql_script[p])
      /\ (sql_script[p] = ExampleScript => executed[p] = << <<"s">>, <<"s">> >>)

C5_Witness ==
  \E p \in Runs :
    /\ pc[p] = "visualize"
    /\ sql_script[p] = ExampleScript
    /\ Len(executed[p]) = 2

\* ------------------------------------------------------------------ C6

HasResultSet(q) == Head(q) = "s"
IsInsert(q) == Head(q) = "i"

\* C6: the returned sequence holds one (column_names, all_rows) entry for each
\* executed statement with a result set, none for the others, in execution
\* order, each with the rows visible when the statement ran; so it is never
\* longer than the list of executed statements.
C6_ResultCapture ==
  \A p \in Runs :
    LET withSet == SelectSeq(executed[p], HasResultSet)
        \* position in executed[p] of the i-th statement with a result set
        At(i) == CHOOSE n \in 1..Len(executed[p]) :
                   /\ HasResultSet(executed[p][n])
                   /\ Len(SelectSeq(SubSeq(executed[p], 1, n), HasResultSet)) = i
        InsertsBefore(i) == Len(SelectSeq(SubSeq(executed[p], 1, At(i)), IsInsert))
    IN /\ Len(query_results[p]) = Len(withSet)
       /\ Len(query_results[p]) <= Len(executed[p])
       /\ \A i \in 1..Len(query_results[p]) :
            /\ query_results[p][i][1] = <<withSet[i]>>
            /\ query_results[p][i][2] = table \o [j \in 1..InsertsBefore(i) |-> InsertedRow]

\* A returned batch in which a statement without a result set ran before a
\* statement with one, and only the latter left an entry.
C6_Witness ==
  \E p \in Runs :
    /\ pc[p] = "visualize"
    /\ Len(executed[p]) = 2
    /\ Len(query_results[p]) = 1
    /\ ~HasResultSet(executed[p][1])

\* ------------------------------------------------------------------ C7

CopyRaised(p) == HasEvent(p, <<"copy", "raise">>)

\* C7: in a run whose bulk copy raised, no commit follows the copy: the run
\* has left the loader with the exception, the call is not recorded as
\* committed and the table holds what it held before the call.
C7_NoCommitAfterFailedCopy ==
  \A p \in Runs :
    CopyRaised(p) =>
      /\ \A i, j \in 1..Len(trace[p]) :
           (trace[p][i] = <<"copy", "raise">> /\ i < j) => trace[p][j][1] # "commit"
      /\ pc[p] = "crashed"
      /\ error[p].type = "psycopg2.Error"
      /\ ~loads[p].committed
      /\ loads[p].outcome = "LoadError"
      /\ table = loads[p].before

C7_Witness ==
  \E p \in Runs :
    /\ CopyRaised(p)
    /\ pc[p] = "crashed"
    /\ loads[p].source # <<>>


\* ------------------------------------------------------------------ C8

IsSuccessReport(e) ==
  e \in { <<"print", "Schema created successfully or already exists!">>,
          <<"print", "Table created successfully or already exists!">>,
          <<"print", "Data imported successfully">>,
          <<"print", "Table already has data">> }

ReportsSuccess(p) == \E i \in 1..Len(trace[p]) : IsSuccessReport(trace[p][i])

\* C8: once connect has returned no connection handle, the run goes no
\* further than the first loader operation: it ends there with a
\* ConnectionError, no later step is reached and nothing reports success.
C8_ConnectionErrorAborts ==
  \A p \in Runs :
    conn[p] = None =>
      /\ pc[p] \in {"create_schema", "crashed"}
      /\ (pc[p] = "crashed" => error[p].type = "ConnectionError")
      /\ ~ReportsSuccess(p)

\* ------------------------------------------------------------------ C9

\* C9: after a statement of execute_query has failed (schema creation, table
\* creation or the probe), the error has reached the caller: the run has
\* stopped with it, and no success report and no further step follows the
\* failure.
C9_ErrorsSurfaced ==
  \A p \in Runs :
    \A i \in 1..Len(trace[p]) :
      trace[p][i][1] = "execute_error" =>
        /\ pc[p] = "crashed"
        /\ error[p].type # "none"
        /\ \A j \in (i+1)..Len(trace[p]) :
             /\ ~IsSuccessReport(trace[p][j])
             /\ trace[p][j][1] \notin {"execute", "execute_error", "copy", "statement"}

\* ------------------------------------------------------------------ C10

\* Rows reach the table from at most one committed bulk transfer.
C10_PopulatedOnce ==
  /\ Cardinality({p \in Runs : loads[p].committed /\ loads[p].rows # <<>>}) <= 1
  /\ \/ table = <<>>
     \/ \E p \in Runs : loads[p].committed /\ table = loads[p].rows

\* A step keeps every row of the table, and adds rows only to an empty table.
C10_KeepsRows ==
  /\ IsPrefix(table, table')
  /\ (table' # table => table = <<>>)

\* C10: over sequential pipeline runs the rows of the table come from at most
\* one committed bulk transfer, and no step removes a row: the table never
\* shrinks.
C10_TableLifecycle == [](C10_PopulatedOnce) /\ [][C10_KeepsRows]_vars

\* A later run went through the whole pipeline on the table an earlier run
\* had populated.
C10_Witness ==
  \E p, q \in Runs :
    /\ p < q
    /\ loads[p].committed /\ loads[p].rows # <<>>
    /\ table = loads[p].rows
    /\ pc[q] = "done"

\* ======================================================================
\* The sales pipeline: one action per call of main (pipeline.py, 5-17).
\* ======================================================================

SalesLog(evs) == sales_trace' = sales_trace \o evs

SalesRaise(type) ==
  /\ sales_pc' = "crashed"
  /\ SalesLog(<< <<"raise", type>> >>)

\* An InvoiceDate that raises when the plan that evaluates it runs.
RaisesOnDate(frame) == \E i \in DOMAIN frame : frame[i].InvoiceDate.layout = "error"

\* main, line 11: df = read_csv_file(spark, "data.csv"); the frame is a plan,
\* nothing of it is evaluated yet.
read_csv_file ==
  /\ sales_pc = "start"
  /\ sales_runs < MaxRuns
  /\ sales_runs' = sales_runs + 1
  /\ \E lines \in SalesFiles, a \in BOOLEAN :
       /\ data_csv' = lines
       /\ ansi' = a
       /\ sales_df' = ReadCsv(lines, a)
  /\ sales_pc' = "total_sales"
  /\ sales_trace' = << <<"read", "data.csv">> >>
  /\ UNCHANGED <<sales, total_sales, transactions_per_day, top_10_products,
                 salesHistory>>
  /\ UNCHANGED <<storeVars, csv_file, inputVars, loads, pc, conn, tx, pend,
                 test_result, batchVars, error, trace>>

\* main, line 12: only Quantity and UnitPrice are evaluated.
calculate_total_sales ==
  /\ sales_pc = "total_sales"
  /\ total_sales' = TotalSales(sales_df)
  /\ sales_pc' = "transactions_per_day"
  /\ SalesLog(<< <<"aggregate", "total_sales">> >>)
  /\ UNCHANGED <<sales, sales_runs, data_csv, ansi, sales_df, transactions_per_day,
                 top_10_products, salesHistory>>
  /\ UNCHANGED <<storeVars, csv_file, inputVars, loads, pc, conn, tx, pend,
                 test_result, batchVars, error, trace>>

\* main, line 13: evaluates InvoiceDate (show, line 89).
calculate_transaction_per_day ==
  /\ sales_pc = "transactions_per_day"
  /\ IF RaisesOnDate(sales_df)
     THEN /\ SalesRaise("DateTimeException")
          /\ UNCHANGED transactions_per_day
     ELSE /\ transactions_per_day' = TransactionsPerDay(sales_df)
          /\ sales_pc' = "top_10_products"
          /\ SalesLog(<< <<"aggregate", "transactions_per_day">> >>)
  /\ UNCHANGED <<sales, sales_runs, data_csv, ansi, sales_df, total_sales,
                 top_10_products, salesHistory>>
  /\ UNCHANGED <<storeVars, csv_file, inputVars, loads, pc, conn, tx, pend,
                 test_result, batchVars, error, trace>>

\* main, line 14.
calculate_top_10_products ==
  /\ sales_pc = "top_10_products"
  /\ \E ordered \in DescendingOrders(SalesByProduct(sales_df)) :
       top_10_products' = Limit(ordered)
  /\ sales_pc' = "load_config"
  /\ SalesLog(<< <<"aggregate", "top_10_products">> >>)
  /\ UNCHANGED <<sales, sales_runs, data_csv, ansi, sales_df, total_sales,
                 transactions_per_day, salesHistory>>
  /\ UNCHANGED <<storeVars, csv_file, inputVars, loads, pc, conn, tx, pend,
                 test_result, batchVars, error, trace>>

\* main, line 16: load_config raises when database.ini has no section.
sales_load_config ==
  /\ sales_pc = "load_config"
  /\ \E ok \in BOOLEAN :
       IF ok THEN /\ sales_pc' = "write"
                  /\ SalesLog(<< <<"config", "ok">> >>)
             ELSE SalesRaise("Exception")
  /\ UNCHANGED <<sales, sales_runs, salesLocals, salesHistory>>
  /\ UNCHANGED <<storeVars, csv_file, inputVars, loads, pc, conn, tx, pend,
                 test_result, batchVars, error, trace>>

\* main, line 17: write_to_postgres(df, config, 'sales'). The server may
\* refuse the connection (table untouched) or the insert may fail after the
\* table was dropped and created again (table left empty).
write_to_postgres ==
  /\ sales_pc = "write"
  /\ sales_before' = sales
  /\ prev_written' = written
  /\ \E outcome \in {"ok", "refused", "interrupted"} :
       CASE outcome = "ok" ->
              /\ sales' = JdbcWrite(sales, sales_df)
              /\ written' = Frame(sales_df)
              /\ sales_pc' = "written"
              /\ SalesLog(<< <<"write", "sales">> >>)
         [] outcome = "refused" ->
              /\ SalesRaise("Py4JJavaError")
              /\ UNCHANGED <<sales, written>>
         [] outcome = "interrupted" ->
              /\ sales' = EmptyTable
              /\ written' = NoFrame
              /\ SalesRaise("Py4JJavaError")
  /\ UNCHANGED <<sales_runs, salesLocals>>
  /\ UNCHANGED <<storeVars, csv_file, inputVars, loads, pc, conn, tx, pend,
                 test_result, batchVars, error, trace>>

\* The process of one sales run ends; its locals are gone.
sales_exit ==
  /\ sales_pc \in {"written", "crashed"}
  /\ sales_pc' = "start"
  /\ data_csv' = <<>>
  /\ ansi' = FALSE
  /\ sales_df' = <<>>
  /\ total_sales' = NullAmount
  /\ transactions_per_day' = {}
  /\ top_10_products' = <<>>
  /\ sales_trace' = <<>>
  /\ sales_before' = EmptyTable
  /\ prev_written' = NoFrame
  /\ UNCHANGED <<sales, sales_runs, written>>
  /\ UNCHANGED <<storeVars, csv_file, inputVars, loads, pc, conn, tx, pend,
                 test_result, batchVars, error, trace>>

NextSales ==
  \/ read_csv_file
  \/ calculate_total_sales
  \/ calculate_transaction_per_day
  \/ calculate_top_10_products
  \/ sales_load_config
  \/ write_to_postgres
  \/ sales_exit

SpecSales == Init /\ [][NextSales]_vars

\* ----------------------------------------------------------------- C11

\* C11: every completed write_to_postgres leaves in the sink table exactly
\* the rows of the written frame, whatever the table held before (no check of
\* the prior contents, nothing merged or appended), and a write of the frame
\* that the previous write already wrote leaves the table as that write left it.
C11_Overwrite ==
  sales_pc = "written" =>
    /\ sales = RowBag(sales_df)
    /\ (prev_written = Frame(sales_df) => sales = sales_before)

\* The same frame of at least one row written a second time.
C11_Witness ==
  /\ sales_pc = "written"
  /\ sales_df # <<>>
  /\ prev_written = Frame(sales_df)
  /\ sales_before # EmptyTable

\* ----------------------------------------------------------------- C12

\* calculate_total_sales has run in the current sales run.
TotalComputed == sales_pc \notin {"start", "total_sales"}

\* The sum of quantity times unit_price over records 1..n, in cents.
RECURSIVE SigmaCents(_, _)
SigmaCents(records, n) ==
  IF n = 0 THEN 0
  ELSE SigmaCents(records, n - 1) + records[n].Quantity * records[n].UnitPrice

\* C12: for every dataset total_sales is the sum over all records of quantity
\* times unit_price (14.00 for the records (A,2,3.00), (A,1,3.00), (B,5,1.00)).
C12_TotalSales ==
  TotalComputed =>
    /\ total_sales = Amount(SigmaCents(data_csv, Len(data_csv)))
    /\ data_csv = ExampleSales => total_sales = Amount(1400)

\* ----------------------------------------------------------------- C13

\* calculate_top_10_products has run in the current sales run.
TopComputed == \E i \in DOMAIN sales_trace : sales_trace[i] = <<"aggregate", "top_10_products">>

\* The sum of quantity times unit_price over the records 1..n of one stock
\* code, in cents.
RECURSIVE CodeCents(_, _, _)
CodeCents(records, code, n) ==
  IF n = 0 THEN 0
  ELSE CodeCents(records, code, n - 1)
       + (IF records[n].StockCode = code
          THEN records[n].Quantity * records[n].UnitPrice ELSE 0)

StockCodes(records) == {records[i].StockCode : i \in DOMAIN records}

Returned(rows) == {rows[i].StockCode : i \in DOMAIN rows}

\* C13: the top products are at most N = 10 groups (all groups when there are
\* no more than N), one per distinct stock code of the dataset, each with the
\* sum of quantity times unit_price of its stock code, in descending order of
\* that sum, and no stock code left out has a larger sum than a returned one;
\* for the records (A,2,3.00), (A,1,3.00), (B,5,1.00) the result is
\* [(A, 9.00), (B, 5.00)].
C13_TopProducts ==
  TopComputed =>
    LET top == top_10_products
        codes == StockCodes(data_csv)
        Total(c) == CodeCents(data_csv, c, Len(data_csv))
    IN /\ Len(top) <= TopN
       /\ Len(top) = IF Cardinality(codes) <= TopN THEN Cardinality(codes) ELSE TopN
       /\ \A i \in DOMAIN top :
            /\ top[i].StockCode \in codes
            /\ top[i].total_sales = Amount(Total(top[i].StockCode))
       /\ \A i, j \in DOMAIN top :
            /\ i # j => top[i].StockCode # top[j].StockCode
            /\ i < j => top[i].total_sales.cents >= top[j].total_sales.cents
       /\ \A i \in DOMAIN top : \A c \in codes \ Returned(top) :
            top[i].total_sales.cents >= Total(c)
       /\ data_csv = ExampleSales =>
            top = << [StockCode |-> "A", total_sales |-> Amount(900)],
                     [StockCode |-> "B", total_sales |-> Amount(500)] >>

\* A dataset of more than N stock codes: N groups returned, one left out.
C13_Witness ==
  /\ TopComputed
  /\ Cardinality(StockCodes(data_csv)) > TopN
  /\ Len(top_10_products) = TopN
  /\ StockCodes(data_csv) \ Returned(top_10_products) = {"P01"}

\* ----------------------------------------------------------------- C14

\* calculate_transaction_per_day has returned in the current sales run.
PerDayComputed ==
  \E i \in DOMAIN sales_trace : sales_trace[i] = <<"aggregate", "transactions_per_day">>

\* The calendar date in an InvoiceDate text of data.csv.
CalendarDate(stamp) == [year |-> stamp.year, month |-> stamp.month, day |-> stamp.day]

\* The records of data.csv whose InvoiceDate text is a date and time.
Dated(records) == {i \in DOMAIN records : Parses(records[i].InvoiceDate)}

\* C14: for each calendar date of the dataset the result has exactly one row,
\* and its count is the number of distinct invoice ids among the records of
\* that date (two line items of one invoice on one date count as 1).
C14_TransactionsPerDay ==
  PerDayComputed =>
    \A i \in Dated(data_csv) :
      LET d == CalendarDate(data_csv[i].InvoiceDate)
          invoices == {data_csv[j].InvoiceNo :
                         j \in {k \in Dated(data_csv) :
                                  CalendarDate(data_csv[k].InvoiceDate) = d}}
      IN /\ Cardinality({row \in transactions_per_day : row.InvoiceDate = d}) = 1
         /\ \A row \in transactions_per_day :
              row.InvoiceDate = d => row.total_transactions = Cardinality(invoices)

\* Two line items of one invoice on one date, counted as one transaction.
C14_Witness ==
  /\ PerDayComputed
  /\ data_csv = ExampleSales
  /\ [InvoiceDate |-> CalendarDate(GoodStamp), total_transactions |-> 1] \in transactions_per_day
  /\ Cardinality(transactions_per_day) = 2

\* ----------------------------------------------------------------- C15

\* read_csv_file has returned in the current sales run.
SalesRead == sales_pc # "start"

\* The customer_id the rule gives for a CustomerID of the input: "0" for a
\* missing one, else the digits of the integer part.
CanonicalCustomerId(c) == IF c.kind = "missing" THEN Str(<<"0">>) ELSE Str(<<c.ip>>)

\* C15: after normalization every record has the customer_id of the rule
\* (never null or empty, "0" for a missing id, "12345" for 12345.0), and the
\* output has the records of the input in the same number and order.
C15_CustomerIdNormalized ==
  /\ \A p \in Runs : pc[p] \notin {"start", "crashed"} =>
       /\ Len(df[p]) = Len(raw[p])
       /\ \A i \in DOMAIN df[p] :
            df[p][i].CustomerID = CanonicalCustomerId(raw[p][i].CustomerID)
  /\ SalesRead =>
       /\ Len(sales_df) = Len(data_csv)
       /\ \A i \in DOMAIN sales_df :
            /\ sales_df[i].InvoiceNo = data_csv[i].InvoiceNo
            /\ sales_df[i].CustomerID = CanonicalCustomerId(data_csv[i].CustomerID)

\* ----------------------------------------------------------------- C16

HasBadTimestamp(records) == \E i \in DOMAIN records : ~Parses(records[i].InvoiceDate)

IsDownstream(e) == e[1] \in {"aggregate", "write", "config"}

\* C16: when the timestamp of a record does not parse, the run ends with an
\* error raised by the normalization and nothing downstream happens: no
\* dataset file, load or batch statement in the SQL pipeline; no aggregation
\* and no sink write in the sales pipeline, and no record is passed on
\* without its timestamp.
C16_BadTimestampAborts ==
  /\ \A p \in Runs : HasBadTimestamp(raw[p]) =>
       /\ pc[p] = "crashed"
       /\ trace[p] = << <<"raise", "ValueError">> >>
  /\ (SalesRead /\ HasBadTimestamp(data_csv)) =>
       /\ \A i \in DOMAIN sales_trace : ~IsDownstream(sales_trace[i])
       /\ sales_pc # "written"

\* ======================================================================
\* Two runs of the SQL pipeline at the same time, up to the end of the loader.
\* ======================================================================

RaceRuns == {1, 2}

\* A run starts whatever the other run is doing.
concurrent_read_retail_dataset(p) == FetchAndNormalize(p)

NextRace ==
  \E p \in RaceRuns :
    \/ concurrent_read_retail_dataset(p)
    \/ create_csv_file(p)
    \/ load_config(p)
    \/ connect(p)
    \/ create_schema_if_not_exists(p)
    \/ create_table_if_not_exists(p)
    \/ copy_probe(p)
    \/ copy_expert(p)
    \/ copy_commit(p)

SpecRace == Init /\ [][NextRace]_vars

\* ----------------------------------------------------------------- C17

\* Run p has transferred data.csv and committed the transfer.
Transferred(p) == loads[p].copied /\ loads[p].committed

\* C17: with two runs in the loader at the same time, every committed transfer
\* is in the table in full whatever the other run did: a run whose probe saw
\* no row transfers and commits also when the other run does the same, and the
\* table then holds both transfers, one after the other.
C17_BothTransfersLand ==
  /\ (Transferred(1) /\ Transferred(2)) =>
       table \in {loads[1].rows \o loads[2].rows, loads[2].rows \o loads[1].rows}
  /\ (Transferred(1) /\ ~Transferred(2)) => table = loads[1].rows
  /\ (Transferred(2) /\ ~Transferred(1)) => table = loads[2].rows
  /\ \A p \in RaceRuns : Transferred(p) => test_result[p] = None

\* Both probes saw the empty table, both runs transferred the same dataset of
\* at least one row and committed: the table holds the dataset twice.
C17_Witness ==
  /\ \A p \in RaceRuns :
       /\ Transferred(p)
       /\ test_result[p] = None
       /\ loads[p].before = <<>>
       /\ loads[p].outcome = "Loaded"
  /\ loads[1].rows = loads[2].rows
  /\ loads[1].rows # <<>>
  /\ table = loads[1].rows \o loads[1].rows

\* ----------------------------------------------------------------- C18

\* The events of a run up to the probe, when nothing fails.
UpToProbe ==
  << <<"normalize", "ok">>, <<"write", "data.csv">>, <<"config", "ok">>,
     <<"connect", "open">>,
     <<"execute", "schema">>, <<"commit", "schema">>,
     <<"print", "Schema created successfully or already exists!">>,
     <<"execute", "table">>, <<"commit", "table">>,
     <<"print", "Table created successfully or already exists!">>,
     <<"execute", "probe">>, <<"commit", "probe">> >>

\* The rest of the loader: transfer and commit when the probe found no row.
AfterProbe(found) ==
  IF found = None
  THEN << <<"copy", "ok">>, <<"commit", "copy">>, <<"print", "Data imported successfully">> >>
  ELSE << <<"print", "Table already has data">> >>

IsLoaderEnd(e) ==
  e \in { <<"print", "Data imported successfully">>, <<"print", "Table already has data">> }

IsBatchStep(e) == e[1] \in {"read", "statement", "statement_error", "return"}

\* C18: a run that completes without error has gone through normalize, write
\* of the dataset file, configuration, connection, schema, table, probe,
\* transfer and commit (exactly when the probe found no row), and only then
\* the batch, its statements, and the charts as the last step; in every run,
\* completed or not, the batch starts right after the end of the loader and
\* every other batch step follows a batch step, and the charts are saved
\* only as the last step of a completed run.
C18_PipelineOrder ==
  \A p \in Runs :
    LET t == trace[p]
        loader == UpToProbe \o AfterProbe(test_result[p])
        n == Len(loader)
    IN /\ pc[p] = "done" =>
            /\ IsPrefix(loader \o << <<"read", "sql_queries.sql">> >>, t)
            /\ Len(t) >= n + 3
            /\ \A i \in (n + 2)..(Len(t) - 2) : t[i][1] = "statement"
            /\ t[Len(t) - 1] = <<"return", "query_results">>
            /\ t[Len(t)] = <<"charts", "saved">>
       /\ \A i \in DOMAIN t :
            IsBatchStep(t[i]) =>
              /\ i > 1
              /\ IF t[i] = <<"read", "sql_queries.sql">>
                 THEN IsLoaderEnd(t[i - 1])
                 ELSE IsBatchStep(t[i - 1])
       /\ \A i \in DOMAIN t :
            t[i] = <<"charts", "saved">> => (i = Len(t) /\ pc[p] = "done")

\* A completed run whose probe found no row: transfer, commit, three
\* statements, charts.
C18_Witness ==
  \E p \in Runs :
    /\ pc[p] = "done"
    /\ test_result[p] = None
    /\ HasEvent(p, <<"commit", "copy">>)
    /\ Len(executed[p]) = 3

\* A completed run whose probe found a row: no transfer.
C18_WitnessAlreadyLoaded ==
  \E p \in Runs :
    /\ pc[p] = "done"
    /\ test_result[p] # None
    /\ ~HasEvent(p, <<"copy", "ok">>)

\* ----------------------------------------------------------------- C19

\* The batch statement runner has been entered in run p.
BatchEntered(p) == HasEvent(p, <<"read", "sql_queries.sql">>)

\* The rows the statements of a batch have put into the open transaction.
RECURSIVE Effects(_)
Effects(statements) ==
  IF statements = <<>> THEN <<>>
  ELSE StatementEffect(Head(statements)) \o Effects(Tail(statements))

IsTransactionEnd(e) == e[1] \in {"commit", "rollback"}

\* C19: from its first step on the batch statement runner issues no commit
\* and no rollback, whether its statements succeed or one fails: the open
\* transaction holds the effects of exactly the statements executed, also
\* after a failing statement, and the committed table is as the loader left it.
C19_RunnerLeavesTransaction ==
  \A p \in Runs : BatchEntered(p) =>
    /\ \A j \in DOMAIN trace[p] :
         IsTransactionEnd(trace[p][j]) =>
           \A i \in 1..(j - 1) : trace[p][i] # <<"read", "sql_queries.sql">>
    /\ pend[p] = Effects(executed[p])
    /\ table = loads[p].after

\* A statement failed after another had inserted a row: the row is still in
\* the open transaction, uncommitted.
C19_Witness ==
  \E p \in Runs :
    /\ BatchEntered(p)
    /\ HasStatementError(p)
    /\ pc[p] = "crashed"
    /\ tx[p] = "failed"
    /\ pend[p] = <<InsertedRow>>

\* ----------------------------------------------------------------- C20

\* Run p is in the loader or past it (its process has not ended).
ProbeAttempted(p) == Invoked(p) /\ pc[p] # "exited"

\* The probe statement of run p executed without error.
ProbeSucceeded(p) == HasEvent(p, <<"commit", "probe">>)

\* Run p has reached the transfer branch of the loader.
TransferStarted(p) ==
  \/ pc[p] \in {"copy_expert", "copy_commit"}
  \/ HasEvent(p, <<"copy", "ok">>)
  \/ HasEvent(p, <<"copy", "raise">>)

\* C20: the loader reaches the transfer only after a probe that executed
\* without error and returned no row from an empty table; a probe that failed
\* (statement error, or no connection) ends the run with an exception and the
\* transfer branch is never reached.
C20_TransferOnlyAfterEmptyProbe ==
  \A p \in Runs :
    /\ TransferStarted(p) =>
         /\ ProbeSucceeded(p)
         /\ ~HasEvent(p, <<"execute_error", "probe">>)
         /\ test_result[p] = None
         /\ loads[p].before = <<>>
    /\ (ProbeAttempted(p) /\ ~ProbeSucceeded(p)) =>
         /\ pc[p] = "crashed"
         /\ loads[p].outcome = "LoadError"
         /\ ~TransferStarted(p)
         /\ ~loads[p].copied

\* The probe met a statement error while the table held no row: the run
\* ended there and nothing was transferred.
C20_Witness ==
  \E p \in Runs :
    /\ HasEvent(p, <<"execute_error", "probe">>)
    /\ pc[p] = "crashed"
    /\ table = <<>>
    /\ csv_file # <<>>
    /\ ~loads[p].copied

\* The probe ran without a connection: the run ended there as well.
C20_WitnessNoConnection ==
  \E p \in Runs :
    /\ ProbeAttempted(p)
    /\ conn[p] = None
    /\ error[p].type = "UnboundLocalError"
    /\ ~loads[p].copied

\* ----------------------------------------------------------------- C21

\* The statements main sends through execute_query.
QueryCalls == {"schema", "table", "probe"}

IsQueryCommit(e) == e[1] = "commit" /\ e[2] \in QueryCalls

IsQueryExecute(e) == e[1] = "execute" /\ e[2] \in QueryCalls

IsQueryError(e) == e[1] = "execute_error" /\ e[2] \in QueryCalls

\* C21: execute_query commits exactly when there is a connection and its
\* statement executed without error: each of its commits follows the
\* successful execute of the same statement at once and each successful
\* execute is followed by its commit; after a failed statement no commit and
\* no rollback is issued in the run and the connection stays in the failed
\* transaction; without a connection nothing is executed or committed.
C21_CommitIffExecuted ==
  \A p \in Runs :
    LET t == trace[p] IN
      \A i \in DOMAIN t :
        /\ IsQueryCommit(t[i]) =>
             /\ conn[p] = "open"
             /\ i > 1
             /\ t[i - 1] = <<"execute", t[i][2]>>
        /\ IsQueryExecute(t[i]) =>
             /\ i < Len(t)
             /\ t[i + 1] = <<"commit", t[i][2]>>
        /\ IsQueryError(t[i]) =>
             /\ conn[p] = "open"
             /\ tx[p] = "failed"
             /\ i < Len(t)
             /\ t[i + 1] = <<"print", "An error occurred">>
             /\ \A j \in (i + 1)..Len(t) : ~IsTransactionEnd(t[j])
        /\ t[i] = <<"print", "Connection to PostgreSQL failed.">> =>
             /\ conn[p] = None
             /\ \A j \in DOMAIN t : ~IsTransactionEnd(t[j]) /\ ~IsQueryExecute(t[j])

\* The schema statement committed, the table statement failed, and the
\* probe then met the transaction the failure had left open.
C21_Witness ==
  \E p \in Runs :
    /\ HasEvent(p, <<"commit", "schema">>)
    /\ HasEvent(p, <<"execute_error", "table">>)
    /\ HasEvent(p, <<"execute_error", "probe">>)
    /\ ~HasEvent(p, <<"commit", "table">>)
    /\ tx[p] = "failed"

====
